---- MODULE Spec2Model ----
(***************************************************************************)
(* Model of lector_tts_dash_web.py: the playback controller (the globals   *)
(* WORDS, WORD_IDX, READING, ENG, the Dash callbacks on_speak, on_tick,    *)
(* on_rate_change, on_stop and the background speak thread), the upload    *)
(* callback on_file_up with extract_text, and the entity guard             *)
(* _protect_entities / _restore_entities.                                  *)
(*                                                                         *)
(* Text is a sequence of one-character strings.  The request-handling      *)
(* callbacks run one at a time on the request thread (rq_pc); every speak  *)
(* thread started by on_speak runs concurrently with it, one source line   *)
(* per step.                                                               *)
(***************************************************************************)
EXTENDS Integers, Sequences, FiniteSets, Bags, TLC

VARIABLES
    WORDS,          \* global WORDS: the token list of the text being read
    WORD_IDX,       \* global WORD_IDX: the playback cursor
    READING,        \* global READING
    ENG,            \* global ENG: None or the engine handle
    threads,        \* the bag of running speak threads, each a record
                    \*   pc:     the line the thread is at
                    \*   nleft:  started-word events its engine loop still holds
                    \*   halt:   its engine loop has been told to stop
                    \*   latest: it is the thread the last on_speak started
    exited,         \* how the thread of the last on_speak ended ("none": it has not)
    rq_pc,          \* position of the request thread inside on_stop / on_rate_change
    status,         \* Output("status", "children")
    tick_disabled,  \* Output("tick", "disabled")
    stop_run,       \* on_stop calls that returned in a row, nothing between (0, 1, 2+)
    text_input,     \* Output("text-input", "value"): the current document
    up_contents,    \* upload-doc.contents of the last upload
    up_filename,    \* upload-doc.filename of the last upload
    up_before,      \* the document as it was when the last upload arrived
    up_count,       \* uploads handled so far (0, 1, 2+)
    g_text,         \* entity guard: the text given to _protect_entities
    g_ents,         \* entity guard: the spans the NER backend reports for g_text
    g_pc,           \* entity guard: "start", "protected", "restored"
    g_protected,    \* entity guard: the sorted list `protected`
    g_temp,         \* entity guard: the guarded text
    g_out           \* entity guard: the result of _restore_entities

playVars  == <<WORDS, WORD_IDX, READING, ENG, threads, exited,
               rq_pc, status, tick_disabled, stop_run>>
upVars    == <<text_input, up_contents, up_filename, up_before, up_count>>
guardVars == <<g_text, g_ents, g_pc, g_protected, g_temp, g_out>>
vars      == <<playVars, upVars, guardVars>>

None == "None"

(***************************************************************************)
(* Bounds                                                                  *)
(***************************************************************************)
MaxThreads     == 2   \* speak threads that can be alive at once
MaxEngineWords == 1   \* started-word events the engine fires for one utterance
MaxPieces      == 3   \* pieces a text given to the entity guard is made of

(***************************************************************************)
(* Text helpers                                                            *)
(***************************************************************************)
NL == "\n"

\* str.isspace for the characters used here (what \s and str.strip see)
IsSpace(c) == c \in {" ", NL}

\* `not text or not text.strip()`  (lines 289, 325, 336)
IsBlank(text) == \A i \in 1..Len(text) : IsSpace(text[i])

\* end of the maximal run of non-whitespace starting at i  (\S+ is greedy)
RECURSIVE RunEnd(_, _)
RunEnd(s, i) ==
    IF i < Len(s) /\ ~IsSpace(s[i + 1]) THEN RunEnd(s, i + 1) ELSE i

\* re.findall(r"\S+|\n", to_read), scanning from position i
RECURSIVE FindTokens(_, _)
FindTokens(s, i) ==
    IF i > Len(s) THEN <<>>
    ELSE IF ~IsSpace(s[i])
         THEN LET j == RunEnd(s, i)
              IN  <<SubSeq(s, i, j)>> \o FindTokens(s, j + 1)
         ELSE IF s[i] = NL
              THEN <<<<NL>>>> \o FindTokens(s, i + 1)
              ELSE FindTokens(s, i + 1)

Tokenise(s) == FindTokens(s, 1)

\* the values the text-input State can hand to on_speak
SpeakTexts ==
    { <<>>, <<" ">>, <<"a">>, <<"a", NL, "b">> }

(***************************************************************************)
(* Playback controller: state after module import  (lines 50-53, 256)      *)
(***************************************************************************)
InitPlayback ==
    /\ WORDS = <<>>
    /\ WORD_IDX = -1
    /\ READING = FALSE
    /\ ENG = None
    /\ threads = EmptyBag
    /\ exited = "none"
    /\ rq_pc = "idle"
    /\ status = None
    /\ tick_disabled = TRUE
    /\ stop_run = 0

InitUploadIdle ==
    /\ text_input = <<>>
    /\ up_contents = <<>>
    /\ up_filename = <<>>
    /\ up_before = <<>>
    /\ up_count = 0

InitGuardIdle ==
    /\ g_text = <<>>
    /\ g_ents = {}
    /\ g_pc = "off"
    /\ g_protected = <<>>
    /\ g_temp = <<>>
    /\ g_out = <<>>

Init == InitPlayback /\ InitUploadIdle /\ InitGuardIdle

(***************************************************************************)
(* The speak thread  (lines 178-195)                                       *)
(***************************************************************************)
\* pyttsx3.init() hands out the engine object; ENG is None or that handle
Engine == "Engine"

One(r) == SetToBag({r})

\* thread r moves on to line l
Goto(r, l) == threads' = (threads (-) One(r)) (+) One([r EXCEPT !.pc = l])

\* thread r ends (by returning or by an uncaught exception)
Exit(r, how) ==
    /\ threads' = threads (-) One(r)
    /\ exited' = IF r.latest THEN how ELSE exited

\* line 180: ENG = pyttsx3.init(); the engine may be unavailable, and then
\* init raises inside the thread and nothing else of speak runs
speak_init(r) ==
    /\ r.pc = "l180"
    /\ \/ /\ ENG' = Engine
          /\ Goto(r, "l181")
          /\ UNCHANGED exited
       \/ /\ Exit(r, "x180")
          /\ UNCHANGED ENG
    /\ stop_run' = 0
    /\ UNCHANGED <<WORDS, WORD_IDX, READING, rq_pc, status, tick_disabled,
                   upVars, guardVars>>

\* lines 181-191: ENG.getProperty / ENG.setProperty / ENG.connect, each through
\* the global ENG; with ENG None the attribute access raises
speak_setup(r) ==
    /\ r.pc = "l181"
    /\ IF ENG = None
       THEN Exit(r, "x_pre")
       ELSE Goto(r, "l192") /\ UNCHANGED exited
    /\ stop_run' = 0
    /\ UNCHANGED <<WORDS, WORD_IDX, READING, ENG, rq_pc, status, tick_disabled,
                   upVars, guardVars>>

\* line 192: READING, WORD_IDX = True, -1
speak_mark(r) ==
    /\ r.pc = "l192"
    /\ READING' = TRUE
    /\ WORD_IDX' = -1
    /\ Goto(r, "l193")
    /\ stop_run' = 0
    /\ UNCHANGED <<WORDS, ENG, exited, rq_pc, status, tick_disabled,
                   upVars, guardVars>>

\* lines 193-194: ENG.say(text); ENG.runAndWait() is entered.  With ENG None
\* the call raises; the engine itself may raise; otherwise the engine queues
\* the utterance, which it will report as n started-word events, at most one
\* for each word of the utterance
speak_run(r) ==
    /\ r.pc = "l193"
    /\ \/ /\ ENG # None
          /\ \E n \in 0..r.words :
                threads' = (threads (-) One(r))
                           (+) One([r EXCEPT !.pc = "l194", !.nleft = n])
          /\ UNCHANGED exited
       \/ Exit(r, "x_run")
    /\ stop_run' = 0
    /\ UNCHANGED <<WORDS, WORD_IDX, READING, ENG, rq_pc, status, tick_disabled,
                   upVars, guardVars>>

\* lines 187-189: the engine fires started-word and on_word runs
on_word(r) ==
    /\ r.pc = "l194"
    /\ r.nleft > 0
    /\ WORD_IDX' = WORD_IDX + 1
    /\ threads' = (threads (-) One(r)) (+) One([r EXCEPT !.nleft = r.nleft - 1])
    /\ stop_run' = 0
    /\ UNCHANGED <<WORDS, READING, ENG, exited, rq_pc, status, tick_disabled,
                   upVars, guardVars>>

\* line 194: runAndWait returns (the utterance is over, or the loop was told
\* to stop) or raises
speak_run_end(r) ==
    /\ r.pc = "l194"
    /\ \/ /\ r.nleft = 0 \/ r.halt
          /\ threads' = (threads (-) One(r))
                        (+) One([r EXCEPT !.pc = "l195", !.nleft = 0,
                                          !.halt = FALSE])
          /\ UNCHANGED exited
       \/ Exit(r, "x_run")
    /\ stop_run' = 0
    /\ UNCHANGED <<WORDS, WORD_IDX, READING, ENG, rq_pc, status, tick_disabled,
                   upVars, guardVars>>

\* line 195: READING, ENG = False, None; the thread returns
speak_final(r) ==
    /\ r.pc = "l195"
    /\ READING' = FALSE
    /\ ENG' = None
    /\ Exit(r, "done")
    /\ stop_run' = 0
    /\ UNCHANGED <<WORDS, WORD_IDX, rq_pc, status, tick_disabled,
                   upVars, guardVars>>

Running == BagToSet(threads)

speak_180 == \E r \in Running : speak_init(r)
speak_181 == \E r \in Running : speak_setup(r)
speak_192 == \E r \in Running : speak_mark(r)
speak_193 == \E r \in Running : speak_run(r)
speak_189 == \E r \in Running : on_word(r)
speak_194 == \E r \in Running : speak_run_end(r)
speak_195 == \E r \in Running : speak_final(r)

(***************************************************************************)
(* The request-handling callbacks  (lines 287-318)                         *)
(***************************************************************************)
Returned(t) == [raised |-> FALSE, value |-> t]
Raised      == [raised |-> TRUE, value |-> <<>>]

\* smart_translate(text) as on_speak sees it (lines 111-129): blank text comes
\* back unchanged; otherwise the result is whatever the translation backend
\* returns for the guarded sentences (some text that is not blank), or the
\* backend's exception
smart_translate(text) ==
    IF IsBlank(text)
    THEN {Returned(text)}
    ELSE {Returned(t) : t \in {u \in SpeakTexts : ~IsBlank(u)}} \cup {Raised}

\* the words the engine finds in an utterance: its non-blank stretches (a line
\* break is a token of WORDS and no word for the engine)
EngineWords(to_read) ==
    LET w == Tokenise(to_read)
        n == Cardinality({i \in 1..Len(w) : w[i] # <<NL>>})
    IN  IF n < MaxEngineWords THEN n ELSE MaxEngineWords

\* threading.Thread(target=speak, args=(to_read, voice, rate)).start()
NewThread(to_read) ==
    [pc |-> "l180", words |-> EngineWords(to_read), nleft |-> 0,
     halt |-> FALSE, latest |-> TRUE]
NotLatest(r) == [r EXCEPT !.latest = FALSE]

\* lines 289-290: nothing to read
on_speak_empty(text) ==
    /\ rq_pc = "idle"
    /\ IsBlank(text)
    /\ status' = "empty"
    /\ tick_disabled' = TRUE
    /\ stop_run' = 0
    /\ UNCHANGED <<WORDS, WORD_IDX, READING, ENG, threads, exited, rq_pc,
                   upVars, guardVars>>

\* line 291 raises: the callback ends without touching the globals or outputs
on_speak_raise(text, toggle) ==
    /\ rq_pc = "idle"
    /\ ~IsBlank(text)
    /\ toggle
    /\ Raised \in smart_translate(text)
    /\ stop_run' = 0
    /\ UNCHANGED <<WORDS, WORD_IDX, READING, ENG, threads, exited, rq_pc,
                   status, tick_disabled, upVars, guardVars>>

\* lines 291-294: tokenise, reset the cursor, start the thread, report "Leyendo"
on_speak_read(text, toggle, to_read) ==
    /\ rq_pc = "idle"
    /\ ~IsBlank(text)
    /\ IF toggle THEN Returned(to_read) \in smart_translate(text)
                 ELSE to_read = text
    /\ BagCardinality(threads) < MaxThreads
    /\ WORDS' = Tokenise(to_read)
    /\ WORD_IDX' = -1
    /\ threads' = BagOfAll(NotLatest, threads) (+) One(NewThread(to_read))
    /\ status' = "reading"
    /\ tick_disabled' = FALSE
    /\ exited' = "none"
    /\ stop_run' = 0
    /\ UNCHANGED <<READING, ENG, rq_pc, upVars, guardVars>>

on_speak ==
    \E text \in SpeakTexts :
        \/ on_speak_empty(text)
        \/ on_speak_raise(text, TRUE)
        \/ on_speak_read(text, FALSE, text)
        \/ \E to_read \in SpeakTexts : on_speak_read(text, TRUE, to_read)

\* lines 299-300: fired by the interval timer while it is enabled
on_tick ==
    /\ rq_pc = "idle"
    /\ ~tick_disabled
    /\ tick_disabled' = ~READING
    /\ stop_run' = 0
    /\ UNCHANGED <<WORDS, WORD_IDX, READING, ENG, threads, exited, rq_pc,
                   status, upVars, guardVars>>

\* line 304: if READING and ENG
on_rate_change_304 ==
    /\ rq_pc = "idle"
    /\ rq_pc' = IF READING /\ ENG # None THEN "l305" ELSE "idle"
    /\ stop_run' = 0
    /\ UNCHANGED <<WORDS, WORD_IDX, READING, ENG, threads, exited, status,
                   tick_disabled, upVars, guardVars>>

\* lines 305-306: ENG.setProperty("rate", ...) through the global ENG (with ENG
\* None the call raises); the callback ends either way
on_rate_change_305 ==
    /\ rq_pc = "l305"
    /\ rq_pc' = "idle"
    /\ stop_run' = 0
    /\ UNCHANGED <<WORDS, WORD_IDX, READING, ENG, threads, exited, status,
                   tick_disabled, upVars, guardVars>>

\* a slip: the guard written as `if ENG:`
on_stop_guard_eng_only == ENG # None

\* line 315: if READING and ENG
on_stop_guard == READING /\ ENG # None

on_stop_315 ==
    /\ rq_pc = "idle"
    /\ rq_pc' = IF on_stop_guard THEN "l316" ELSE "l317"
    /\ UNCHANGED <<WORDS, WORD_IDX, READING, ENG, threads, exited, status,
                   tick_disabled, stop_run, upVars, guardVars>>

\* ENG.stop(): every running engine loop is told to stop
Halted(r) == IF r.pc = "l194" THEN [r EXCEPT !.halt = TRUE] ELSE r

\* line 316: ENG.stop() through the global ENG; with ENG None the call raises
\* and the callback ends there
on_stop_316 ==
    /\ rq_pc = "l316"
    /\ IF ENG = None
       THEN /\ rq_pc' = "idle"
            /\ stop_run' = 0
            /\ UNCHANGED threads
       ELSE /\ rq_pc' = "l317"
            /\ threads' = BagOfAll(Halted, threads)
            /\ UNCHANGED stop_run
    /\ UNCHANGED <<WORDS, WORD_IDX, READING, ENG, exited, status,
                   tick_disabled, upVars, guardVars>>

\* lines 317-318: READING, WORD_IDX = False, -1 and the outputs
on_stop_317 ==
    /\ rq_pc = "l317"
    /\ READING' = FALSE
    /\ WORD_IDX' = -1
    /\ status' = "stopped"
    /\ tick_disabled' = TRUE
    /\ rq_pc' = "idle"
    /\ stop_run' = IF stop_run < 2 THEN stop_run + 1 ELSE 2
    /\ UNCHANGED <<WORDS, ENG, threads, exited, upVars, guardVars>>

Next ==
    \/ on_speak
    \/ on_tick
    \/ on_rate_change_304
    \/ on_rate_change_305
    \/ on_stop_315
    \/ on_stop_316
    \/ on_stop_317
    \/ speak_180
    \/ speak_181
    \/ speak_192
    \/ speak_193
    \/ speak_189
    \/ speak_194
    \/ speak_195

Spec == Init /\ [][Next]_vars

(***************************************************************************)
(* Properties of the playback controller                                   *)
(***************************************************************************)
NoThread == threads = EmptyBag

\* threads that have called pyttsx3.init() and whose runAndWait() has not ended
InSynthesis == {"l181", "l192", "l193", "l194"}

Synthesising ==
    BagCardinality(BagOfAll(LAMBDA r : r.pc,
        [r \in {q \in BagToSet(threads) : q.pc \in InSynthesis} |-> threads[r]]))

StopCalled  == rq_pc = "idle" /\ rq_pc' \in {"l316", "l317"}
StopReturns == rq_pc = "l317" /\ rq_pc' = "idle"

\* C1: once the synthesis of the last read has raised and no speak thread is
\* left to run, READING is False (nothing but a stop request could still
\* clear it, so "eventually" has to be true by then).
C1_IdleAfterSynthesisError ==
    (exited = "x_run" /\ NoThread) => ~READING

\* C2: on_stop called while READING is False goes straight to line 317: it
\* never reaches ENG.stop(), so it neither touches the engine nor raises; an
\* on_stop that returns while no speak thread runs leaves READING False,
\* WORD_IDX -1, WORDS and ENG as they were; and an on_stop that returns right
\* after another on_stop returned changes nothing at all.
C2_StopIdempotent ==
    [][ /\ (StopCalled /\ ~READING) =>
              (rq_pc' = "l317" /\ UNCHANGED <<WORDS, WORD_IDX, READING, ENG, threads>>)
        /\ (StopReturns /\ NoThread) =>
              (~READING' /\ WORD_IDX' = -1 /\ UNCHANGED <<WORDS, ENG, threads>>)
        /\ (StopReturns /\ stop_run >= 1) =>
              UNCHANGED <<WORDS, WORD_IDX, READING, ENG, threads, status,
                          tick_disabled>>
      ]_vars

\* on_stop has returned twice in a row after a read that ran to its end
C2_Witness ==
    /\ stop_run = 2
    /\ NoThread
    /\ exited = "done"
    /\ WORDS # <<>>
    /\ ~READING /\ WORD_IDX = -1

\* C3: at most one speak thread is between pyttsx3.init() and the end of
\* runAndWait().
C3_OneSynthesis == Synthesising <= 1

\* C4: the cursor is -1 or an index into WORDS.
C4_CursorInRange == -1 <= WORD_IDX /\ WORD_IDX <= Len(WORDS) - 1

\* C5: when the last read's thread ended because pyttsx3.init() raised and
\* nothing else is running or has been requested since, READING is False, the
\* status shown is not the "Leyendo" message and the cursor is -1.
C5_UnavailableReported ==
    (exited = "x180" /\ NoThread /\ rq_pc = "idle" /\ status # "stopped") =>
        (~READING /\ status # "reading" /\ WORD_IDX = -1)

\* C8: from the return of on_stop until the next on_speak, READING is False
\* and WORD_IDX is -1.
C8_StopSticks ==
    status = "stopped" => (~READING /\ WORD_IDX = -1)

\* C9: while the status is that of the last on_speak and that read's thread
\* has not finished its synthesis, the tick timer is enabled.
C9_TimerStaysOn ==
    (status = "reading" /\ \E r \in BagToSet(threads) :
                              r.latest /\ r.pc \in {"l180"} \cup InSynthesis)
        => ~tick_disabled

\* C10: ENG.stop() and ENG.setProperty() are executed on a handle that is
\* not None.
C10_HandlePresent ==
    rq_pc \in {"l305", "l316"} => ENG # None

(***************************************************************************)
(* File upload: on_file_up and extract_text  (lines 34-42, 140-157,        *)
(* 267-273).  A literal message is kept as one element of the text.        *)
(***************************************************************************)
RaisedWith(msg) == [raised |-> TRUE, value |-> <<msg>>]

\* position of the first "," in s, 0 if there is none
RECURSIVE FirstComma(_, _)
FirstComma(s, i) ==
    IF i > Len(s) THEN 0
    ELSE IF s[i] = "," THEN i ELSE FirstComma(s, i + 1)

\* position of the last "." in s, 0 if there is none
RECURSIVE LastDot(_, _)
LastDot(s, i) ==
    IF i < 1 THEN 0
    ELSE IF s[i] = "." THEN i ELSE LastDot(s, i - 1)

\* str.lower on the letters that occur in the file names used here
LowerChar(c) ==
    CASE c = "T" -> "t"
      [] c = "X" -> "x"
      [] c = "P" -> "p"
      [] c = "D" -> "d"
      [] c = "F" -> "f"
      [] OTHER   -> c

Lower(s) == [i \in 1..Len(s) |-> LowerChar(s[i])]

\* line 143: pathlib.Path(filename).suffix.lower(); a name that only starts
\* or only ends with a dot has no suffix
Suffix(filename) ==
    LET d == LastDot(filename, Len(filename))
    IN  IF d <= 1 \/ d = Len(filename)
        THEN <<>>
        ELSE Lower(SubSeq(filename, d, Len(filename)))

\* the base64 alphabet, for the digits that occur in the uploads used here
B64Digits == {"Y", "Q", "W", "I", "/", "w"}

B64Value(c) ==
    CASE c = "Y" -> 24
      [] c = "Q" -> 16
      [] c = "W" -> 22
      [] c = "I" -> 8
      [] c = "/" -> 63
      [] c = "w" -> 48

\* the bytes of one group of four base64 characters
B64Group(g) ==
    LET a == B64Value(g[1])
        b == B64Value(g[2])
        b1 == (a * 4 + b \div 16) % 256
    IN  IF g[3] = "="
        THEN <<b1>>
        ELSE LET c == B64Value(g[3])
                 b2 == ((b % 16) * 16 + c \div 4) % 256
             IN  IF g[4] = "="
                 THEN <<b1, b2>>
                 ELSE <<b1, b2, ((c % 4) * 64 + B64Value(g[4])) % 256>>

\* a well-formed group: digits, with "=" only as the last one or two characters
B64GroupOk(g) ==
    /\ g[1] \in B64Digits
    /\ g[2] \in B64Digits
    /\ \/ g[3] \in B64Digits /\ g[4] \in B64Digits \cup {"="}
       \/ g[3] = "=" /\ g[4] = "="

\* line 142: base64.b64decode(b64); a length that is no multiple of four is
\* "Incorrect padding"
RECURSIVE B64Bytes(_)
B64Bytes(b64) ==
    IF Len(b64) = 0 THEN <<>>
    ELSE B64Group(SubSeq(b64, 1, 4)) \o B64Bytes(SubSeq(b64, 5, Len(b64)))

RECURSIVE B64Ok(_)
B64Ok(b64) ==
    \/ Len(b64) = 0
    \/ /\ Len(b64) >= 4
       /\ B64GroupOk(SubSeq(b64, 1, 4))
       /\ B64Ok(SubSeq(b64, 5, Len(b64)))

b64decode(b64) ==
    IF B64Ok(b64) THEN Returned(B64Bytes(b64))
                  ELSE RaisedWith("Incorrect padding")

\* chr() of the ASCII bytes that occur in the uploads used here
Chr(b) == IF b = 97 THEN "a" ELSE IF b = 98 THEN "b" ELSE "?"

\* line 145: raw.decode("utf-8", errors="ignore") for ASCII bytes and bytes
\* that start no UTF-8 sequence (0x80-0xC1, 0xF5-0xFF), which are dropped
RECURSIVE Utf8Ignore(_)
Utf8Ignore(raw) ==
    IF Len(raw) = 0 THEN <<>>
    ELSE (IF raw[1] < 128 THEN <<Chr(raw[1])>> ELSE <<>>)
         \o Utf8Ignore(Tail(raw))

Unsupported ==
    RaisedWith("Extension no soportada -> usa .txt / .docx / .odt / .pdf")

\* what python-docx, odfpy and pdfminer can make of the bytes: the text of the
\* document, or (docx, odt) an exception, or (pdf, lines 34-42) ""
DocTexts == { <<"a">>, <<"a", " ", "b">> }

\* lines 140-157: every outcome extract_text can have
extract_text(contents, filename) ==
    LET k   == FirstComma(contents, 1)
        b64 == SubSeq(contents, k + 1, Len(contents))
        raw == b64decode(b64)
        ext == Suffix(filename)
    IN  IF k = 0
        THEN {RaisedWith("not enough values to unpack (expected 2, got 1)")}
        ELSE IF raw.raised THEN {raw}
        ELSE IF ext = <<".", "t", "x", "t">>
             THEN {Returned(Utf8Ignore(raw.value))}
        ELSE IF ext \in {<<".", "d", "o", "c", "x">>, <<".", "o", "d", "t">>}
             THEN {Returned(t) : t \in DocTexts}
                  \cup {RaisedWith("File is not a zip file")}
        ELSE IF ext = <<".", "p", "d", "f">>
             THEN {Returned(t) : t \in DocTexts} \cup {Unsupported}
        ELSE {Unsupported}

ErrorPrefix == "Error leyendo archivo: "

\* lines 267-273: the value on_file_up returns for text-input (no_update is
\* the value it has)
on_file_up_value(contents, filename, r) ==
    IF Len(contents) = 0 THEN text_input
    ELSE IF r.raised THEN <<ErrorPrefix>> \o r.value
    ELSE r.value

on_file_up(contents, filename) ==
    /\ \E r \in extract_text(contents, filename) :
          text_input' = on_file_up_value(contents, filename, r)
    /\ up_contents' = contents
    /\ up_filename' = filename
    /\ up_before' = text_input
    /\ up_count' = IF up_count < 2 THEN up_count + 1 ELSE 2
    /\ UNCHANGED <<playVars, guardVars>>

\* the documents the text area can hold when an upload arrives
Docs == { <<>>, <<"h", "o", "l", "a">> }

\* data URLs the upload component can send ("d" stands for the header
\* "data:<mime>;base64"), the empty value, and a string with no comma
Uploads ==
    { <<>>,
      <<"d", ",">>,
      <<"d", ",", "Y", "Q", "=", "=">>,
      <<"d", ",", "Y", "W", "I", "=">>,
      <<"d", ",", "/", "w", "=", "=">>,
      <<"d", ",", "Y", "Q">>,
      <<"d">> }

FileNames ==
    { <<"n", ".", "t", "x", "t">>,
      <<"n", ".", "T", "X", "T">>,
      <<"n", ".", "x", "y", "z">>,
      <<"n", ".", "p", "d", "f">>,
      <<"n", ".", "d", "o", "c", "x">>,
      <<"n", ".", "o", "d", "t">>,
      <<"n">>,
      <<".", "t", "x", "t">>,
      <<"n", ".">> }

InitUpload ==
    /\ text_input \in Docs
    /\ up_contents = <<>>
    /\ up_filename = <<>>
    /\ up_before = <<>>
    /\ up_count = 0

NextUpload == \E c \in Uploads, f \in FileNames : on_file_up(c, f)

UploadInit == InitPlayback /\ InitUpload /\ InitGuardIdle

SpecUpload == UploadInit /\ [][NextUpload]_vars

\* the supported set named by the error message
Supported ==
    { <<".", "t", "x", "t">>, <<".", "d", "o", "c", "x">>,
      <<".", "o", "d", "t">>, <<".", "p", "d", "f">> }

\* a data URL as the upload component sends it
WellFormed(contents) ==
    LET k == FirstComma(contents, 1)
    IN  k > 0 /\ B64Ok(SubSeq(contents, k + 1, Len(contents)))

\* C6: after the upload of a file (a well-formed data URL) whose extension is
\* not one of the supported set, the document is what it was before the
\* upload: the unsupported-format message does not take its place.
C6_UnsupportedKeepsDocument ==
    (up_count > 0 /\ WellFormed(up_contents)
                  /\ Suffix(up_filename) \notin Supported)
        => text_input = up_before

(***************************************************************************)
(* Entity guard: _protect_entities and _restore_entities  (lines 56-108)   *)
(***************************************************************************)
Str3(a, b, c) == <<a, b, c>>

Ana    == Str3("A", "n", "a")
Paz    == Str3("P", "a", "z")
Una    == Str3("U", "n", "a")
AnaPaz == Ana \o <<" ">> \o Paz

\* character classes of the letters used here
IsUpper(c) == c \in {"A", "P", "U"}
IsLower(c) == c \in {"n", "a", "z"}
IsDigit(c) == c \in {"0", "1", "2", "3", "4", "5", "6", "7", "8", "9"}
IsWordChar(c) == IsUpper(c) \/ IsLower(c) \/ IsDigit(c)

\* \b at the gap before position i of s
Boundary(s, i) ==
    LET before == i > 1 /\ i - 1 <= Len(s) /\ IsWordChar(s[i - 1])
        after  == i >= 1 /\ i <= Len(s) /\ IsWordChar(s[i])
    IN  before # after

\* end of the maximal run of characters of a class starting at i (i - 1 if
\* the run is empty)
RECURSIVE LowerRunEnd(_, _)
LowerRunEnd(s, i) ==
    IF i <= Len(s) /\ IsLower(s[i]) THEN LowerRunEnd(s, i + 1) ELSE i - 1

RECURSIVE SpaceRunEnd(_, _)
SpaceRunEnd(s, i) ==
    IF i <= Len(s) /\ IsSpace(s[i]) THEN SpaceRunEnd(s, i + 1) ELSE i - 1

\* [A-Z][a-z]{2,} at position i: the end of the match, 0 if there is none
CapWordEnd(s, i) ==
    IF i <= Len(s) /\ IsUpper(s[i])
    THEN LET e == LowerRunEnd(s, i + 1)
         IN  IF e - i >= 2 THEN e ELSE 0
    ELSE 0

\* (?:\s+[A-Z][a-z]{2,})* after a match that ends at e: the end of the match
RECURSIVE MoreCapWords(_, _)
MoreCapWords(s, e) ==
    LET w == SpaceRunEnd(s, e + 1)
        n == IF w > e THEN CapWordEnd(s, w + 1) ELSE 0
    IN  IF n = 0 THEN e ELSE MoreCapWords(s, n)

\* CAP_PAT at position i (line 58): the end of the match, 0 if there is none
CapPatEnd(s, i) ==
    IF Boundary(s, i) /\ CapWordEnd(s, i) # 0
    THEN MoreCapWords(s, CapWordEnd(s, i))
    ELSE 0

\* line 84: re.findall(CAP_PAT, text), scanning from position i
RECURSIVE FindCaps(_, _)
FindCaps(s, i) ==
    IF i > Len(s) THEN <<>>
    ELSE LET e == CapPatEnd(s, i)
         IN  IF e = 0 THEN FindCaps(s, i + 1)
             ELSE <<SubSeq(s, i, e)>> \o FindCaps(s, e + 1)

\* sub occurs in s at position i
OccursAt(s, sub, i) ==
    /\ i >= 1
    /\ i + Len(sub) - 1 <= Len(s)
    /\ SubSeq(s, i, i + Len(sub) - 1) = sub

IsSubstr(sub, s) == \E i \in 1..(Len(s) + 1) : OccursAt(s, sub, i)

\* str.count(sub): the occurrences that do not overlap, from the left
RECURSIVE Count(_, _, _)
Count(s, sub, i) ==
    IF i + Len(sub) - 1 > Len(s) THEN 0
    ELSE IF OccursAt(s, sub, i) THEN 1 + Count(s, sub, i + Len(sub))
    ELSE Count(s, sub, i + 1)

\* str.replace(old, new), scanning from position i
RECURSIVE Replace(_, _, _, _)
Replace(s, old, new, i) ==
    IF i > Len(s) THEN <<>>
    ELSE IF OccursAt(s, old, i)
         THEN new \o Replace(s, old, new, i + Len(old))
         ELSE <<s[i]>> \o Replace(s, old, new, i + 1)

\* line 59: the members of STOP_TOKENS that can be written with these letters
STOP_TOKENS == {Una}

\* lines 90-91: tok opens the text or follows [.!?] and whitespace
AtSentenceStart(tok, text) ==
    \/ OccursAt(text, tok, 1) /\ Boundary(text, Len(tok) + 1)
    \/ \E i \in 1..Len(text) :
          /\ text[i] \in {".", "!", "?"}
          /\ \E j \in (i + 2)..Len(text) :
                /\ \A k \in (i + 1)..(j - 1) : IsSpace(text[k])
                /\ OccursAt(text, tok, j)
                /\ Boundary(text, j + Len(tok))

\* lines 85-94: the capitalised tokens that are kept
Kept(tok, text) ==
    /\ tok \notin STOP_TOKENS
    /\ ~(/\ " " \notin {tok[i] : i \in 1..Len(tok)}
         /\ Count(text, tok, 1) = 1
         /\ AtSentenceStart(tok, text))

Range(seq) == {seq[i] : i \in 1..Len(seq)}

\* lines 73-95 and the set() of line 97: ents is what the NER step added
Candidates(text, ents) ==
    ents \cup {tok \in Range(FindCaps(text, 1)) : Kept(tok, text)}

\* a slip: sorted(..., key=len) without reverse=True
InOrder_ascending(a, b) == Len(a) <= Len(b)

\* line 97: key=len, reverse=True
InOrder(a, b) == Len(a) >= Len(b)

\* line 97: sorted(set(protected), key=len, reverse=True); spans of one length
\* come in the order the set happens to yield them
Sortings(S) ==
    { p \in [1..Cardinality(S) -> S] :
        /\ \A i, j \in 1..Cardinality(S) : i # j => p[i] # p[j]
        /\ \A i, j \in 1..Cardinality(S) : i < j => InOrder(p[i], p[j]) }

\* str(i) for the indices that occur
Digits == <<"0", "1", "2", "3", "4", "5", "6", "7", "8", "9">>
RECURSIVE Str(_)
Str(i) == IF i < 10 THEN <<Digits[i + 1]>> ELSE Str(i \div 10) \o <<Digits[(i % 10) + 1]>>

\* line 98: f"{TAG}{i}]]" for the span at position k of `protected`
TagOf(k) == <<"[", "[">> \o Str(k - 1) \o <<"]", "]">>

\* lines 99-101: the spans replaced by their tags, in the order of tag_map
RECURSIVE Substitute(_, _, _)
Substitute(temp, protected, k) ==
    IF k > Len(protected) THEN temp
    ELSE Substitute(Replace(temp, protected[k], TagOf(k), 1), protected, k + 1)

\* lines 106-107: the tags replaced by their spans, in the order of tag_map
RECURSIVE Restored(_, _, _)
Restored(text, protected, k) ==
    IF k > Len(protected) THEN text
    ELSE Restored(Replace(text, TagOf(k), protected[k], 1), protected, k + 1)

\* lines 71-102
protect_entities ==
    /\ g_pc = "start"
    /\ \E p \in Sortings(Candidates(g_text, g_ents)) :
          /\ g_protected' = p
          /\ g_temp' = Substitute(g_text, p, 1)
    /\ g_pc' = "protected"
    /\ UNCHANGED <<g_text, g_ents, g_out, playVars, upVars>>

\* lines 105-108
restore_entities ==
    /\ g_pc = "protected"
    /\ g_out' = Restored(g_temp, g_protected, 1)
    /\ g_pc' = "restored"
    /\ UNCHANGED <<g_text, g_ents, g_protected, g_temp, playVars, upVars>>

\* the texts: up to MaxPieces of these pieces, one after the other
Pieces ==
    { Ana, Paz, AnaPaz, Una, <<" ">>, <<".", " ">>,
      <<"[", "[", "0", "]", "]">>, <<"0">>, <<"[">>, <<"]">>, <<" ", "[">> }

RECURSIVE Concats(_)
Concats(n) ==
    IF n = 0 THEN {<<>>}
    ELSE LET shorter == Concats(n - 1)
         IN  shorter \cup {t \o q : t \in shorter, q \in Pieces}

\* lines 76-81: the entity texts the NER model can report (none when spaCy or
\* the model of the language is missing); each is a span of the text
NerSpans == {<<"0">>, Ana, <<" ", "[">>}

InitGuard ==
    /\ g_text \in Concats(MaxPieces)
    /\ g_ents \in SUBSET {e \in NerSpans : IsSubstr(e, g_text)}
    /\ g_pc = "start"
    /\ g_protected = <<>>
    /\ g_temp = <<>>
    /\ g_out = <<>>

GuardInit == InitPlayback /\ InitUploadIdle /\ InitGuard

NextGuard == protect_entities \/ restore_entities

SpecGuard == GuardInit /\ [][NextGuard]_vars

(***************************************************************************)
(* Properties of the entity guard                                          *)
(***************************************************************************)
Spans == 1..Len(g_protected)

\* no protected span is a substring of another span's tag text
NoSpanInOtherTag ==
    \A i, j \in Spans : i # j => ~IsSubstr(g_protected[i], TagOf(j))

\* the text holds no literal copy of a tag that is handed out
NoTagInText == \A j \in Spans : ~IsSubstr(TagOf(j), g_text)

\* no protected span holds a bracket
NoBracketInSpan ==
    \A i \in Spans : Range(g_protected[i]) \cap {"[", "]"} = {}

\* tags are handed out in order of decreasing span length
LongestFirst ==
    \A i, j \in Spans : i < j => Len(g_protected[i]) >= Len(g_protected[j])

\* a span that holds a shorter protected span is tagged whole: it is never left
\* in the guarded text with the shorter span's tag inside it
NotHalfTagged ==
    \A i, j \in Spans :
        (i # j /\ Len(g_protected[j]) < Len(g_protected[i])
               /\ IsSubstr(g_protected[j], g_protected[i]))
            => ~IsSubstr(Replace(g_protected[i], g_protected[j], TagOf(j), 1),
                         g_temp)

\* C7 as claimed: with a non-empty placeholder map and no protected span a
\* substring of another span's tag text, restoring the guarded text gives the
\* original text.
C7_RoundTripAsClaimed ==
    (g_pc = "restored" /\ g_protected # <<>> /\ NoSpanInOtherTag)
        => g_out = g_text

\* C7 as amended: tags are handed out longest span first; and when, besides,
\* the original text holds no literal tag of the map and no span holds a
\* bracket, restoring the guarded text gives the original text and no longer
\* span is left half-tagged.
C7_RoundTrip ==
    (g_pc = "restored" /\ g_protected # <<>>)
        => /\ LongestFirst
           /\ (NoSpanInOtherTag /\ NoTagInText /\ NoBracketInSpan)
                 => (g_out = g_text /\ NotHalfTagged)

\* "Ana Paz" and "Paz" are both protected, the text has been guarded and
\* restored
C7_Witness ==
    /\ g_pc = "restored"
    /\ AnaPaz \in Range(g_protected)
    /\ Paz \in Range(g_protected)
    /\ NoSpanInOtherTag /\ NoTagInText /\ NoBracketInSpan
    /\ g_temp # g_text
    /\ g_out = g_text

====
